---- MODULE Spec2Model ----
(***************************************************************************)
(* A model of the Topos live-coding sequencer: the script API (UserAPI,    *)
(* src/src/API.ts), the pattern player (Player, src/src/classes/ZPlayer.ts)*)
(* and the editor's buffer handling (Editor, src/src/main.ts).  The clock  *)
(* (Clock) and the evaluator (tryEvaluate) follow the design document.     *)
(***************************************************************************)
EXTENDS Integers, Sequences, FiniteSets, TLC

(***************************************************************************)
(* Bounds of the model.                                                    *)
(***************************************************************************)
MaxCalls == 5          \* calls of counter() in one run
MaxLimit == 3          \* largest limit passed to counter()
MaxStep == 2           \* largest step passed to counter()
MaxPulse == 24         \* pulses the gate specification lets the clock run
MaxPpqn == 2           \* largest ppqn set by ppqn(n)
MaxNum == 3            \* largest numerator of a value passed to mod()
MaxBarArg == 5         \* largest n / bar number passed to onbar()
NLocals == 2           \* local scripts of a universe (the application has nine)
MaxEvals == 2          \* largest evaluations count of a buffer
MaxTick == 3           \* pulse boundaries the clock specification processes per run
MaxElapsed == 2        \* boundaries one poll can find elapsed
MaxGen == 3            \* transport commands (start, pause, stop) in one run
MaxBeatNum == 10       \* onbeat arguments are num/2 with num up to this
MaxCycle == 8          \* euclid: pulses and length up to this
MaxIter == 10          \* euclid and bin: the iterator up to this
MaxRotate == 4         \* euclid: rotate up to this
MaxBin == 34           \* bin: the number up to this
MaxRepeat == 2         \* the calls of one generator with the same arguments
MaxReports == 3        \* error reports in one run
MaxNow == 8000         \* the time the error line is followed for, in ms
MaxBoundaries == 8     \* pulse boundaries the player specification processes per run
MaxZCalls == 2          \* calls of z() one evaluation makes
MaxCacheTicks == 2      \* pulse boundaries the cache specification processes per run
TimeStep == 1000        \* the longest time between two events of the error line, in ms
MaxOps == 4            \* operations on the buffers in one run

(***************************************************************************)
(* JavaScript values.                                                      *)
(***************************************************************************)
\* `undefined` for an optional numeric argument (limit?: number, step?: number)
Undefined == 0 - 1000

\* the counter names scripts use
Names == {"x", "y"}

\* a counter that does not exist yet: !(name in this.counters)
NoCounter == [value |-> 0, step |-> Undefined, limit |-> Undefined, exists |-> FALSE]

VARIABLES
  counters,             \* UserAPI.counters: name -> {value, step, limit}
  ctrCalls,             \* history: per name, the calls made and the last value returned
  pulses_since_origin,  \* Clock.pulses_since_origin
  bpm,                  \* Clock.bpm
  ppqn,                 \* Clock.ppqn
  time_signature,       \* Clock.time_signature
  gate,                 \* history: the last rhythm gate call and its result
  files,                \* the File objects: id -> {candidate, committed, evaluations}
  universeObjs,         \* the Universe objects: id -> {global, init, locals}
  universes,            \* Editor.universes: name -> Universe object
  selected_universe,    \* Editor.selected_universe
  editor_mode,          \* Editor.editor_mode
  local_index,          \* Editor.local_index
  op,                   \* history: the last operation on the buffers and its outcome
  clockState,           \* Clock: "stopped", "running" or "paused"
  beats_since_origin,   \* Clock.beats_since_origin
  tick,                 \* Clock.tick: the boundaries processed since the origin
  generation,           \* Clock: the guard that tells stale poll callbacks
  pending,              \* the poll callbacks scheduled and not yet fired
  processed,            \* history: the pulse numbers processed since the origin
  players,              \* UserAPI.patternCache: key -> Player
  error_line,           \* Editor.error_line: its text and whether it is hidden
  errorTimeoutID,       \* UserAPI.errorTimeoutID
  timers,               \* the timeouts set and neither fired nor cleared
  now,                  \* the time of the event loop, in ms
  reported,             \* history: the last error reported and when
  track                 \* history: key -> the queries of the player, pulse by pulse

vars == <<counters, ctrCalls, pulses_since_origin, bpm, ppqn, time_signature, gate,
          files, universeObjs, universes, selected_universe, editor_mode,
          local_index, op,
          clockState, beats_since_origin, tick, generation, pending, processed,
          players, error_line, errorTimeoutID, timers, now, reported, track>>

clkVars == <<clockState, beats_since_origin, tick, generation, pending, processed,
             players>>

bufVars == <<files, universeObjs, universes, selected_universe, editor_mode,
             local_index, op>>

ctrVars == <<counters, ctrCalls>>
errVars == <<error_line, errorTimeoutID, timers, now, reported>>
gateVars == <<pulses_since_origin, bpm, ppqn, time_signature, gate>>

(***************************************************************************)
(* UserAPI.counter (src/src/API.ts:347-396)                                *)
(***************************************************************************)
\* step ?? fallback
Coalesce(a, b) == IF a = Undefined THEN b ELSE a

\* a mutant: the creating call advances the new counter as well
CounterCreateAdvancing(limit, step) ==
  LET s == Coalesce(step, 1)
      v == 0 + s
  IN [value |-> IF limit # Undefined /\ v > limit THEN 0 ELSE v,
      step |-> s, limit |-> limit, exists |-> TRUE]

\* the first reference of a name returns the seed value 0 without advancing
CounterCreate(limit, step) ==
  [value |-> 0, step |-> Coalesce(step, 1), limit |-> limit, exists |-> TRUE]

\* a mutant: a call on an existing counter returns its value without advancing
CounterUpdateIdle(c, limit, step) == c

\* a mutant: a changed limit is stored without resetting the value
CounterUpdateKeeping(c, limit, step) ==
  LET c1 == [c EXCEPT !.limit = limit]
      c2 == IF c1.step # step THEN [c1 EXCEPT !.step = Coalesce(step, c1.step)] ELSE c1
      c3 == [c2 EXCEPT !.value = c2.value + c2.step]
  IN IF c3.limit # Undefined /\ c3.value > c3.limit
       THEN [c3 EXCEPT !.value = 0]
       ELSE c3

\* a mutant: an existing counter advances by 1 whatever its step
CounterUpdateUnit(c, limit, step) ==
  LET c1 == IF c.limit # limit THEN [c EXCEPT !.value = 0, !.limit = limit] ELSE c
      c2 == IF c1.step # step THEN [c1 EXCEPT !.step = Coalesce(step, c1.step)] ELSE c1
      c3 == [c2 EXCEPT !.value = c2.value + 1]
  IN IF c3.limit # Undefined /\ c3.value > c3.limit
       THEN [c3 EXCEPT !.value = 0]
       ELSE c3

\* a mutant: an existing counter advances without the overshoot check
CounterUpdateUnwrapped(c, limit, step) ==
  LET c1 == IF c.limit # limit THEN [c EXCEPT !.value = 0, !.limit = limit] ELSE c
      c2 == IF c1.step # step THEN [c1 EXCEPT !.step = Coalesce(step, c1.step)] ELSE c1
  IN [c2 EXCEPT !.value = c2.value + c2.step]

\* the else branch: limit check, step check, increment, overshoot check
CounterUpdate(c, limit, step) ==
  LET c1 == IF c.limit # limit THEN [c EXCEPT !.value = 0, !.limit = limit] ELSE c
      c2 == IF c1.step # step THEN [c1 EXCEPT !.step = Coalesce(step, c1.step)] ELSE c1
      c3 == [c2 EXCEPT !.value = c2.value + c2.step]
  IN IF c3.limit # Undefined /\ c3.value > c3.limit
       THEN [c3 EXCEPT !.value = 0]
       ELSE c3

\* the state of counter `name` after counter(name, limit, step)
CounterApply(c, limit, step) ==
  IF ~c.exists THEN CounterCreate(limit, step) ELSE CounterUpdate(c, limit, step)

NoCalls ==
  [n |-> 0, limit |-> Undefined, step |-> Undefined, same |-> TRUE, ret |-> 0,
   passed |-> <<Undefined, Undefined>>]

RECURSIVE SumCalls(_)
SumCalls(S) ==
  IF S = {} THEN 0
  ELSE LET name == CHOOSE n \in S : TRUE
       IN ctrCalls[name].n + SumCalls(S \ {name})

\* counter(name, limit, step), called from a script
counter(name, limit, step) ==
  /\ SumCalls(Names) < MaxCalls
  /\ LET c == CounterApply(counters[name], limit, step)
         h == ctrCalls[name]
     IN /\ counters' = [counters EXCEPT ![name] = c]
        /\ ctrCalls' = [ctrCalls EXCEPT ![name] =
              IF h.n = 0
                THEN [n |-> 1, limit |-> limit, step |-> step, same |-> TRUE,
                      ret |-> c.value, passed |-> <<limit, step>>]
                ELSE IF h.same /\ h.limit = limit /\ h.step = step
                  THEN [h EXCEPT !.n = h.n + 1, !.ret = c.value]
                  ELSE [n |-> h.n + 1, limit |-> Undefined, step |-> Undefined,
                        same |-> FALSE, ret |-> c.value, passed |-> <<limit, step>>]]
  /\ UNCHANGED gateVars
  /\ UNCHANGED bufVars
  /\ UNCHANGED clkVars
  /\ UNCHANGED errVars
  /\ UNCHANGED track

(***************************************************************************)
(* Time markers and time filters (src/src/API.ts:780-874)                  *)
(***************************************************************************)
\* the result of a JavaScript operation on numbers that is not a number
NaN == 0 - 1001

\* a mutant: the remainder of a division by zero is 0
JsRemZero(a, m) == IF m = 0 THEN 0 ELSE a % m

\* a % m for a >= 0 and m >= 0: the remainder by zero is NaN
JsRem(a, m) == IF m = 0 THEN NaN ELSE a % m

\* Math.floor(value * n) for a value num/den >= 0 and an integer n >= 0
FloorTimes(value, n) == (value.num * n) \div value.den

\* epulse(): the pulses elapsed since the origin of time
epulse == pulses_since_origin

\* Clock.time_position.bar, derived from the pulse counter
TimePositionBar == pulses_since_origin \div (ppqn * time_signature[1])

\* bar(): the current bar number
bar == TimePositionBar

\* a mutant: the arguments of mod are AND-ed
ModEvery(values) ==
  \A i \in 1..Len(values) : JsRem(epulse, FloorTimes(values[i], ppqn)) = 0

\* mod(...n): some argument's period divides the pulse count
Mod(values) ==
  \E i \in 1..Len(values) : JsRem(epulse, FloorTimes(values[i], ppqn)) = 0

\* onbar(n, ...bar): bar_list = 1..n; bar.some(b => bar_list.includes(b % n))
OnBar(n, bars) ==
  \E i \in 1..Len(bars) : JsRem(bars[i], n) \in 1..n

\* a mutant: div is true on the odd chunks
DivOdd(chunk) ==
  LET period == FloorTimes(chunk, ppqn)
  IN IF period = 0 THEN FALSE ELSE JsRem(epulse \div period, 2) = 1

\* div(chunk): Math.floor(epulse / Math.floor(chunk * ppqn)) % 2 === 0; with a
\* period of 0 the quotient is Infinity or NaN, its remainder NaN, the test false
Div(chunk) ==
  LET period == FloorTimes(chunk, ppqn)
  IN IF period = 0 THEN FALSE ELSE JsRem(epulse \div period, 2) = 0

\* Clock.time_position.beat: the beat within the bar, counted from 1
TimePositionBeat == ((pulses_since_origin \div ppqn) % time_signature[1]) + 1

\* Clock.time_position.pulse: the pulse within the beat
TimePositionPulse == pulses_since_origin % ppqn

\* b % m for b = num/den >= 0 and an integer m >= 1
RatRem(b, m) == [num |-> b.num % (m * b.den), den |-> b.den]

\* the beat onbeat looks for: b % time_signature[0], or b where that is 0
OnBeatTarget(b) ==
  LET _mod == RatRem(b, time_signature[1])
  IN IF _mod.num = 0 THEN b ELSE _mod

\* one argument of onbeat: integral_part === time_position.beat and
\* time_position.pulse === decimal_part * ppqn
OnBeatHit(b) ==
  /\ b.num \div b.den = TimePositionBeat
  /\ TimePositionPulse * b.den = (b.num % b.den) * ppqn

\* onbeat(...beat)
OnBeat(beats) == \E i \in 1..Len(beats) : OnBeatHit(OnBeatTarget(beats[i]))

NoGate == [fn |-> "none", n |-> 0, args |-> <<>>, res |-> FALSE]

\* a script calls mod(...values); the gates are pure, so the model records one
\* call per clock state
CallMod(values) ==
  /\ gate = NoGate
  /\ gate' = [fn |-> "mod", n |-> 0, args |-> values, res |-> Mod(values)]
  /\ UNCHANGED <<pulses_since_origin, bpm, ppqn, time_signature>>
  /\ UNCHANGED ctrVars
  /\ UNCHANGED errVars
  /\ UNCHANGED track
  /\ UNCHANGED clkVars
  /\ UNCHANGED bufVars

\* a script calls onbar(n, ...bars)
CallOnBar(n, bars) ==
  /\ gate = NoGate
  /\ gate' = [fn |-> "onbar", n |-> n, args |-> bars, res |-> OnBar(n, bars)]
  /\ UNCHANGED <<pulses_since_origin, bpm, ppqn, time_signature>>
  /\ UNCHANGED ctrVars
  /\ UNCHANGED errVars
  /\ UNCHANGED track
  /\ UNCHANGED clkVars
  /\ UNCHANGED bufVars

\* a script calls div(chunk)
CallDiv(chunk) ==
  /\ gate = NoGate
  /\ gate' = [fn |-> "div", n |-> 0, args |-> <<chunk>>, res |-> Div(chunk)]
  /\ UNCHANGED <<pulses_since_origin, bpm, ppqn, time_signature>>
  /\ UNCHANGED ctrVars
  /\ UNCHANGED errVars
  /\ UNCHANGED track
  /\ UNCHANGED clkVars
  /\ UNCHANGED bufVars

\* a script calls onbeat(...beats)
CallOnBeat(beats) ==
  /\ gate = NoGate
  /\ gate' = [fn |-> "onbeat", n |-> 0, args |-> beats, res |-> OnBeat(beats)]
  /\ UNCHANGED <<pulses_since_origin, bpm, ppqn, time_signature>>
  /\ UNCHANGED ctrVars
  /\ UNCHANGED errVars
  /\ UNCHANGED track
  /\ UNCHANGED clkVars
  /\ UNCHANGED bufVars

\* a mutant: bpm(n) keeps the tempo within 1..500
BpmClamped(n) ==
  IF n = Undefined THEN bpm ELSE IF n < 1 THEN 1 ELSE IF n > 500 THEN 500 ELSE n

\* bpm(n): the tempo of the clock after the call; n is undefined without argument
BpmAfter(n) == IF n = Undefined THEN bpm ELSE n

\* a mutant: ppqn(n) keeps the resolution at 1 or more
PpqnClamped(n) == IF n = Undefined THEN ppqn ELSE IF n < 1 THEN 1 ELSE n

\* ppqn(n): the resolution of the clock after the call
PpqnAfter(n) == IF n = Undefined THEN ppqn ELSE n

\* a script calls bpm() or bpm(n): returns the tempo in force after the call
CallBpm(n) ==
  /\ bpm' = BpmAfter(n)
  /\ gate' = [fn |-> "bpm", n |-> 0, args |-> <<n>>, res |-> IF n = Undefined THEN bpm ELSE n]
  /\ UNCHANGED <<pulses_since_origin, ppqn, time_signature>>
  /\ UNCHANGED ctrVars
  /\ UNCHANGED errVars
  /\ UNCHANGED track
  /\ UNCHANGED clkVars
  /\ UNCHANGED bufVars

\* a script calls ppqn() or ppqn(n)
CallPpqn(n) ==
  /\ ppqn' = PpqnAfter(n)
  /\ gate' = [fn |-> "ppqn", n |-> 0, args |-> <<n>>, res |-> IF n = Undefined THEN ppqn ELSE n]
  /\ UNCHANGED <<pulses_since_origin, bpm, time_signature>>
  /\ UNCHANGED ctrVars
  /\ UNCHANGED errVars
  /\ UNCHANGED track
  /\ UNCHANGED clkVars
  /\ UNCHANGED bufVars

\* ppqn(n) with the gates forgotten: sets the pulses per quarter note
SetPpqn(n) ==
  /\ ppqn' = PpqnAfter(n)
  /\ gate' = NoGate
  /\ UNCHANGED <<pulses_since_origin, bpm, time_signature>>
  /\ UNCHANGED ctrVars
  /\ UNCHANGED errVars
  /\ UNCHANGED track
  /\ UNCHANGED clkVars
  /\ UNCHANGED bufVars

\* the clock reaches the next pulse
GatePulse ==
  /\ pulses_since_origin < MaxPulse
  /\ pulses_since_origin' = pulses_since_origin + 1
  /\ gate' = NoGate
  /\ UNCHANGED <<bpm, ppqn, time_signature>>
  /\ UNCHANGED ctrVars
  /\ UNCHANGED errVars
  /\ UNCHANGED track
  /\ UNCHANGED clkVars
  /\ UNCHANGED bufVars

(***************************************************************************)
(* Universes and script buffers (src/src/main.ts, src/src/API.ts:158-198)  *)
(* Objects are held by reference: a File or a Universe stored in two       *)
(* places is one object.                                                   *)
(***************************************************************************)
\* the texts a buffer can hold; "bad" throws when it is run
Texts == {"", "ok", "bad"}
Throws(text) == text = "bad"

UniverseNames == {"Default", "u2"}
NoUniverse == "undefined"
Slots == 1..NLocals
FileIds == 1..(2 * (NLocals + 2))

\* { candidate: "", committed: "", evaluations: 0 }
EmptyFile == [candidate |-> "", committed |-> "", evaluations |-> 0]

\* the universe object every new or reset universe is set to
TemplateUniverse == "template_universe"
UniverseIds == {TemplateUniverse, "Default"}

\* the files a universe object refers to
FilesOf(uo) == {uo.global, uo.init} \cup {uo.locals[k] : k \in Slots}

\* the File objects reachable from the universes (and the template)
Reachable(uos, us) ==
  UNION {FilesOf(uos[u]) :
           u \in {TemplateUniverse} \cup ({us[n] : n \in UniverseNames} \ {NoUniverse})}

\* objects nothing refers to any more are forgotten
Collect(fs, uos, us) ==
  LET live == Reachable(uos, us)
  IN [f \in FileIds |-> IF f \in live THEN fs[f] ELSE EmptyFile]

\* the selected Universe object
SelectedId == universes[selected_universe]
Selected == universeObjs[SelectedId]

\* Editor.currentFile(), as the id of the File
CurrentFileIn(u, mode, index) ==
  CASE mode = "global" -> u.global
    [] mode = "init" -> u.init
    [] mode = "local" -> u.locals[index]

currentFile == CurrentFileIn(Selected, editor_mode, local_index)

\* tryEvaluate(app, file): run the candidate; commit it when it did not throw,
\* report the error otherwise (the committed text stays the one in force)
TryEvaluate(r, f) ==
  IF Throws(r.files[f].candidate)
    THEN [files |-> r.files,
          oks |-> Append(r.oks, FALSE),
          ran |-> Append(r.ran, r.files[f].committed),
          reports |-> r.reports + 1,
          fids |-> Append(r.fids, f)]
    ELSE [files |-> [r.files EXCEPT ![f].committed = r.files[f].candidate,
                                    ![f].evaluations = r.files[f].evaluations + 1],
          oks |-> Append(r.oks, TRUE),
          ran |-> Append(r.ran, r.files[f].candidate),
          reports |-> r.reports,
          fids |-> Append(r.fids, f)]

NoRun(fs) == [files |-> fs, oks |-> <<>>, ran |-> <<>>, reports |-> 0, fids |-> <<>>]

RECURSIVE EvalAll(_, _)
EvalAll(r, fids) ==
  IF fids = <<>> THEN r ELSE EvalAll(TryEvaluate(r, Head(fids)), Tail(fids))

\* the record of an operation: its name, arguments, the outcome of each evaluation
\* it made, the text in force after each, and the errors it reported
Op(name, args, r) ==
  [name |-> name, args |-> args, oks |-> r.oks, ran |-> r.ran, reports |-> r.reports,
   fids |-> r.fids, step |-> op.step + 1]

\* the page is loaded (beforeunload ends the run) and the run is within its bound
Alive == op.name # "beforeunload" /\ op.step < MaxOps

\* a mutant: script(k) evaluates the global buffer
ScriptTargetGlobal(k) == Selected.global

\* script(k): this.app.universes[this.app.selected_universe].locals[k]
ScriptTarget(k) == Selected.locals[k]

\* a mutant: script(...args) evaluates the listed local scripts last to first
scriptBackwards(args) ==
  LET fids == [i \in 1..Len(args) |-> ScriptTarget(args[Len(args) + 1 - i])]
      r == EvalAll(NoRun(files), fids)
  IN /\ Alive
     /\ \A i \in 1..Len(args) : r.files[fids[i]].evaluations <= MaxEvals
     /\ files' = r.files
     /\ op' = Op("script", args, r)
     /\ UNCHANGED <<universeObjs, universes, selected_universe, editor_mode,
                    local_index>>
     /\ UNCHANGED ctrVars
     /\ UNCHANGED errVars
     /\ UNCHANGED track
     /\ UNCHANGED clkVars
     /\ UNCHANGED gateVars

\* script(...args): evaluates the listed local scripts in order
script(args) ==
  LET fids == [i \in 1..Len(args) |-> ScriptTarget(args[i])]
      r == EvalAll(NoRun(files), fids)
  IN /\ Alive
     /\ \A i \in 1..Len(args) : r.files[fids[i]].evaluations <= MaxEvals
     /\ files' = r.files
     /\ op' = Op("script", args, r)
     /\ UNCHANGED <<universeObjs, universes, selected_universe, editor_mode,
                    local_index>>
     /\ UNCHANGED ctrVars
     /\ UNCHANGED errVars
     /\ UNCHANGED track
     /\ UNCHANGED clkVars
     /\ UNCHANGED gateVars

\* a pulse boundary: the clock evaluates the global buffer
PulseEval ==
  LET r == TryEvaluate(NoRun(files), Selected.global)
  IN /\ r.files[Selected.global].evaluations <= MaxEvals
     /\ files' = r.files
     /\ Alive
     /\ op' = Op("pulse", <<>>, r)
     /\ UNCHANGED <<universeObjs, universes, selected_universe, editor_mode,
                    local_index>>
     /\ UNCHANGED ctrVars
     /\ UNCHANGED errVars
     /\ UNCHANGED track
     /\ UNCHANGED clkVars
     /\ UNCHANGED gateVars

\* The handlers of the editor read view.state.doc, the text the user has typed
\* by then: it is their input `text`.

\* a mutant: the eval key commits the draft as the share button does
EvalKeyCommitting(text) ==
  /\ files' = [files EXCEPT ![currentFile].candidate = text,
                            ![currentFile].committed = text]
  /\ Alive
  /\ op' = Op("evalkey", <<>>, NoRun(files))
  /\ UNCHANGED <<universeObjs, universes, selected_universe, editor_mode,
                 local_index>>
  /\ UNCHANGED ctrVars
  /\ UNCHANGED errVars
  /\ UNCHANGED track
  /\ UNCHANGED clkVars
  /\ UNCHANGED gateVars

\* Ctrl+Enter, Shift+Enter, Ctrl+E, the eval button: the draft becomes the candidate
EvalKey(text) ==
  /\ files' = [files EXCEPT ![currentFile].candidate = text]
  /\ Alive
  /\ op' = Op("evalkey", <<>>, NoRun(files))
  /\ UNCHANGED <<universeObjs, universes, selected_universe, editor_mode,
                 local_index>>
  /\ UNCHANGED ctrVars
  /\ UNCHANGED errVars
  /\ UNCHANGED track
  /\ UNCHANGED clkVars
  /\ UNCHANGED gateVars

\* the share button: "trigger a manual save"
ShareButton(text) ==
  /\ files' = [files EXCEPT ![currentFile].candidate = text,
                            ![currentFile].committed = text]
  /\ Alive
  /\ op' = Op("share", <<>>, NoRun(files))
  /\ UNCHANGED <<universeObjs, universes, selected_universe, editor_mode,
                 local_index>>
  /\ UNCHANGED ctrVars
  /\ UNCHANGED errVars
  /\ UNCHANGED track
  /\ UNCHANGED clkVars
  /\ UNCHANGED gateVars

\* Clock.stop(): polling is halted, the counters are reset, the scheduled
\* callback becomes stale
ClockStop ==
  /\ clockState' = "stopped"
  /\ generation' = generation + 1
  /\ pulses_since_origin' = 0
  /\ beats_since_origin' = 0
  /\ tick' = 0
  /\ processed' = <<>>
  /\ UNCHANGED <<pending, players>>

\* the beforeunload handler of the window: saves the editor's text, stops the clock
BeforeUnload(text) ==
  /\ files' = [files EXCEPT ![currentFile].candidate = text,
                            ![currentFile].committed = text]
  /\ Alive
  /\ op' = Op("beforeunload", <<>>, NoRun(files))
  /\ ClockStop
  /\ UNCHANGED <<universeObjs, universes, selected_universe, editor_mode,
                 local_index>>
  /\ UNCHANGED ctrVars
  /\ UNCHANGED errVars
  /\ UNCHANGED track
  /\ UNCHANGED <<bpm, ppqn, time_signature, gate>>

\* i(n) with an argument: sets the evaluations count of the global buffer
SetIteration(n) ==
  /\ files' = [files EXCEPT ![Selected.global].evaluations = n]
  /\ Alive
  /\ op' = Op("i", <<n>>, NoRun(files))
  /\ UNCHANGED <<universeObjs, universes, selected_universe, editor_mode,
                 local_index>>
  /\ UNCHANGED ctrVars
  /\ UNCHANGED errVars
  /\ UNCHANGED track
  /\ UNCHANGED clkVars
  /\ UNCHANGED gateVars

\* a File object no slot refers to, once slot k of universe u is given up
FreshFile(u, k) ==
  LET others == UNION {IF v = u
                         THEN {universeObjs[v].global, universeObjs[v].init}
                              \cup {universeObjs[v].locals[j] : j \in Slots \ {k}}
                         ELSE FilesOf(universeObjs[v]) : v \in UniverseIds}
  IN CHOOSE f \in FileIds \ others : \A g \in FileIds \ others : f <= g

\* clear_script(k): the slot gets a new empty File
clear_script(k) ==
  LET f == FreshFile(SelectedId, k)
      uos == [universeObjs EXCEPT ![SelectedId].locals[k] = f]
  IN /\ universeObjs' = uos
     /\ files' = Collect([files EXCEPT ![f] = EmptyFile], uos, universes)
     /\ Alive
     /\ op' = Op("clear_script", <<k>>, NoRun(files))
     /\ UNCHANGED <<universes, selected_universe, editor_mode, local_index>>
     /\ UNCHANGED ctrVars
     /\ UNCHANGED errVars
     /\ UNCHANGED track
     /\ UNCHANGED clkVars
     /\ UNCHANGED gateVars

\* copy_script(from, to): the slot `to` is assigned the File of slot `from`
copy_script(from, to) ==
  LET uos == [universeObjs EXCEPT ![SelectedId].locals[to] = Selected.locals[from]]
  IN /\ universeObjs' = uos
     /\ files' = Collect(files, uos, universes)
     /\ Alive
     /\ op' = Op("copy_script", <<from, to>>, NoRun(files))
     /\ UNCHANGED <<universes, selected_universe, editor_mode, local_index>>
     /\ UNCHANGED ctrVars
     /\ UNCHANGED errVars
     /\ UNCHANGED track
     /\ UNCHANGED clkVars
     /\ UNCHANGED gateVars

\* the clear button, confirmed: the selected universe is set to the template
ClearButton ==
  LET us == [universes EXCEPT ![selected_universe] = TemplateUniverse]
      fs == Collect(files, universeObjs, us)
  IN /\ universes' = us
     /\ files' = fs
     /\ Alive
     /\ op' = Op("clear", <<>>, NoRun(files))
     /\ UNCHANGED <<universeObjs, selected_universe, editor_mode, local_index>>
     /\ UNCHANGED ctrVars
     /\ UNCHANGED errVars
     /\ UNCHANGED track
     /\ UNCHANGED clkVars
     /\ UNCHANGED gateVars

\* Editor.loadUniverse(name): saves the draft, creates the universe from the
\* template when it is new, selects it, shows it and evaluates its init script
loadUniverse(name, text) ==
  LET fs1 == [files EXCEPT ![currentFile].candidate = text]
      us == IF universes[name] = NoUniverse
              THEN [universes EXCEPT ![name] = TemplateUniverse]
              ELSE universes
      u == universeObjs[us[name]]
      r == TryEvaluate(NoRun(fs1), u.init)
  IN /\ r.files[u.init].evaluations <= MaxEvals
     /\ universes' = us
     /\ selected_universe' = name
     /\ files' = r.files
     /\ Alive
     /\ op' = Op("loadUniverse", <<>>, r)
     /\ UNCHANGED <<universeObjs, editor_mode, local_index>>
     /\ UNCHANGED ctrVars
     /\ UNCHANGED errVars
     /\ UNCHANGED track
     /\ UNCHANGED clkVars
     /\ UNCHANGED gateVars

\* Editor.changeModeFromInterface(mode): "local" shows the first local script
changeModeFromInterface(mode) ==
  LET index == IF mode = "local" THEN 1 ELSE local_index
  IN /\ editor_mode' = mode
     /\ local_index' = index
     /\ Alive
     /\ op' = Op("mode", <<>>, NoRun(files))
     /\ UNCHANGED <<files, universeObjs, universes, selected_universe>>
     /\ UNCHANGED ctrVars
     /\ UNCHANGED errVars
     /\ UNCHANGED track
     /\ UNCHANGED clkVars
     /\ UNCHANGED gateVars

\* a click on the tab of local script i: saves the draft, shows script i
TabClick(i, text) ==
  LET fs == [files EXCEPT ![currentFile].candidate = text]
  IN /\ editor_mode = "local"
     /\ files' = fs
     /\ local_index' = i
     /\ Alive
     /\ op' = Op("tab", <<i>>, NoRun(files))
     /\ UNCHANGED <<universeObjs, universes, selected_universe, editor_mode>>
     /\ UNCHANGED ctrVars
     /\ UNCHANGED errVars
     /\ UNCHANGED track
     /\ UNCHANGED clkVars
     /\ UNCHANGED gateVars

(***************************************************************************)
(* The error line (src/src/API.ts:83-92)                                   *)
(***************************************************************************)
Errors == {"e1", "e2"}
HideDelay == 2000

NoReport == [e |-> "", at |-> 0, n |-> 0]

\* setTimeout(f, ms): a timer with a new id, due ms from now
SetTimeout(ts, id, ms) == ts \cup {[id |-> id, due |-> now + ms]}

\* clearTimeout(id): the timer with that id, if any, is forgotten
ClearTimeout(ts, id) == {t \in ts : t.id # id}

ErrorFrame ==
  /\ UNCHANGED <<counters, ctrCalls>>
  /\ UNCHANGED track
  /\ UNCHANGED gateVars
  /\ UNCHANGED bufVars
  /\ UNCHANGED clkVars

\* a mutant: _reportError leaves the earlier hide timer pending
reportErrorKeeping(e) ==
  /\ reported.n < MaxReports
  /\ error_line' = [text |-> e, hidden |-> FALSE]
  /\ errorTimeoutID' = errorTimeoutID + 1
  /\ timers' = SetTimeout(timers, errorTimeoutID + 1, HideDelay)
  /\ reported' = [e |-> e, at |-> now, n |-> reported.n + 1]
  /\ UNCHANGED now
  /\ ErrorFrame

\* _reportError(e): the pending hide timer is cleared, the line shows e, a new
\* hide timer is set
reportError(e) ==
  /\ reported.n < MaxReports
  /\ error_line' = [text |-> e, hidden |-> FALSE]
  /\ errorTimeoutID' = errorTimeoutID + 1
  /\ timers' = SetTimeout(ClearTimeout(timers, errorTimeoutID), errorTimeoutID + 1,
                          HideDelay)
  /\ reported' = [e |-> e, at |-> now, n |-> reported.n + 1]
  /\ UNCHANGED now
  /\ ErrorFrame

\* a timer that is due fires: () => error_line.classList.add("hidden")
HideTimerFires ==
  \E t \in timers :
    /\ t.due <= now
    /\ timers' = timers \ {t}
    /\ error_line' = [error_line EXCEPT !.hidden = TRUE]
    /\ UNCHANGED <<errorTimeoutID, now, reported>>
    /\ ErrorFrame

\* time passes, up to the moment the next timer is due
TimePasses ==
  /\ now < MaxNow
  /\ \A t \in timers : now < t.due
  /\ now' = IF \E t \in timers : t.due < now + TimeStep
              THEN CHOOSE d \in {t.due : t \in timers} :
                     \A t \in timers : d <= t.due
              ELSE now + TimeStep
  /\ UNCHANGED <<error_line, errorTimeoutID, timers, reported>>
  /\ ErrorFrame

ErrorInit ==
  /\ error_line = [text |-> "", hidden |-> TRUE]
  /\ errorTimeoutID = 0
  /\ timers = {}
  /\ now = 0
  /\ reported = NoReport

(***************************************************************************)
(* The players (ZPlayer.ts) and the clock                                  *)
(***************************************************************************)
\* the keys of UserAPI.patternCache: one per (input, options) given to z()
\* the calls z(input, options) of the scripts: two inputs with durations of the
\* same lengths; options is {} (undefined here) or { octave: v }
Infinity == 0 - 1002
Inputs == {"q 0 h 1", "q 2 h 3"}
OptionValues == {Undefined, NaN, Infinity}
ZCalls == [input : Inputs, options : OptionValues]

\* JSON.stringify(options): NaN and Infinity are both written null
Stringify(options) ==
  CASE options = Undefined -> "{}"
    [] options = NaN -> "{\"octave\":null}"
    [] options = Infinity -> "{\"octave\":null}"

\* generateCacheKey(input, options): the JSON texts of the arguments
generateCacheKey(input, options) == <<input, Stringify(options)>>

KeyOf(c) == generateCacheKey(c.input, c.options)
KeysOf(calls) == {KeyOf(c) : c \in calls}

\* the keys patternCache can hold
PlayerKeys == KeysOf(ZCalls)

\* the call the clock specifications follow pulse by pulse
SteadyCalls == {[input |-> "q 0 h 1", options |-> Undefined]}
SteadyKeys == KeysOf(SteadyCalls)

\* the pattern a key parses to: the durations of its elements, in whole notes
Pattern == << [num |-> 1, den |-> 4], [num |-> 1, den |-> 2] >>

\* history: what the last query of a player saw
NoQuery ==
  [asked |-> FALSE, restarted |-> FALSE, notStarted |-> TRUE, due |-> FALSE,
   rewound |-> FALSE, index0 |-> 0 - 1, lastCallTime0 |-> 0,
   pre |-> [ziffers |-> 0 - 1, current |-> 0, index |-> 0 - 1, firstCallTime |-> 0,
            played |-> FALSE]]

\* a key patternCache does not hold
NoPlayer ==
  [exists |-> FALSE, firstCallTime |-> 0, lastCallTime |-> 0, waitTime |-> 0,
   played |-> FALSE, current |-> 0, index |-> 0 - 1, ziffers |-> 0 - 1,
   restarted |-> FALSE, q |-> NoQuery]

\* new Player(input, options, app): the field initialisers; `ziffers` is the
\* index of the pattern's cursor, `current` the element last consumed (0: none)
NewPlayer == [NoPlayer EXCEPT !.exists = TRUE]

\* Player.notStarted(): the cursor of the pattern has not moved yet
notStarted(p) == p.ziffers < 0

\* Player.updateLastCallTime()
updateLastCallTime(p, pulses) ==
  IF notStarted(p) \/ p.played
    THEN [p EXCEPT !.lastCallTime = pulses, !.played = FALSE]
    ELSE p

\* Player.next(): consumes the next element of the pattern
next(p) ==
  [p EXCEPT !.ziffers = p.ziffers + 1,
            !.current = ((p.ziffers + 1) % Len(Pattern)) + 1,
            !.played = TRUE]

\* clock.time_position.pulse: the pulse within the beat
PulseInBeat(pulses) == pulses % ppqn

\* clock.next_beat_in_ticks: the pulse count of the next beat boundary
NextBeatInTicks(pulses) == ((pulses \div ppqn) + 1) * ppqn

\* a mutant: a started player is due one pulse after its element has ended
howAboutNowLate(p, pulses) ==
  \/ /\ notStarted(p)
     /\ \/ PulseInBeat(pulses) = 1
        \/ pulses + 1 >= NextBeatInTicks(pulses)
     /\ pulses + 1 >= p.firstCallTime + p.waitTime
  \/ /\ p.current # 0
     /\ (pulses + 1 - p.lastCallTime) * Pattern[p.current].den
          > Pattern[p.current].num * 4 * ppqn

\* the test of areWeThereYet; pulseToSecond(p) = p * pulse_duration with
\* pulse_duration > 0, so the comparison of the second branch is one of pulses
howAboutNow(p, pulses) ==
  \/ /\ notStarted(p)
     /\ \/ PulseInBeat(pulses) = 1
        \/ pulses + 1 >= NextBeatInTicks(pulses)
     /\ pulses + 1 >= p.firstCallTime + p.waitTime
  \/ /\ p.current # 0
     /\ (pulses + 1 - p.lastCallTime) * Pattern[p.current].den
          >= Pattern[p.current].num * 4 * ppqn

\* Player.areWeThereYet(): the rewind check, the test, the bookkeeping
areWeThereYet(p, pulses) ==
  LET p1 == IF pulses < p.lastCallTime
              THEN [p EXCEPT !.lastCallTime = 0, !.index = 0]
              ELSE p
      due == howAboutNow(p1, pulses)
      p2 == [p1 EXCEPT !.index = IF due THEN p1.index + 1 ELSE p1.index]
      p3 == IF due /\ notStarted(p2)
              THEN [p2 EXCEPT !.firstCallTime = pulses + 1]
              ELSE p2
  IN [player |-> [p3 EXCEPT !.q = [asked |-> TRUE, restarted |-> p.restarted,
                                    notStarted |-> notStarted(p1), due |-> due,
                                    rewound |-> pulses < p.lastCallTime,
                                    index0 |-> p1.index,
                                    lastCallTime0 |-> p1.lastCallTime,
                                    pre |-> [ziffers |-> p.ziffers,
                                             current |-> p.current,
                                             index |-> p.index,
                                             firstCallTime |-> p.firstCallTime,
                                             played |-> p.played]],
                             !.restarted = FALSE],
      due |-> due]

\* a mutant: z makes a new Player whether the cache holds the key or not
zNew(p, pulses) == updateLastCallTime(NewPlayer, pulses)

\* a mutant: sound consumes an element whether it is due or not
soundAlways(p, pulses) == next(areWeThereYet(p, pulses).player)

\* Player.sound(name) and Player.midi(value): consume an element when due
sound(p, pulses) ==
  LET a == areWeThereYet(p, pulses)
  IN IF a.due THEN next(a.player) ELSE a.player

\* UserAPI.z(input, options): the cached player of the key, or a new one
z(p, pulses) == updateLastCallTime(IF p.exists THEN p ELSE NewPlayer, pulses)

\* a script evaluates z(key).sound(...) for the keys in `keys`
QueryPlayers(ps, keys, pulses) ==
  [k \in PlayerKeys |-> IF k \in keys THEN sound(z(ps[k], pulses), pulses) ELSE ps[k]]

\* the record of a step of the clock; it does not count as an operation on the
\* buffers
ClockOp(name, args, r) ==
  [name |-> name, args |-> args, oks |-> r.oks, ran |-> r.ran, reports |-> r.reports,
   fids |-> r.fids, step |-> op.step]

\* Clock.start(): from stopped, the counters are at the origin; from paused,
\* they are kept; a new poll callback is scheduled
ClockStart ==
  /\ clockState' = "running"
  /\ IF clockState = "running"
       THEN UNCHANGED <<generation, pending>>
       ELSE /\ generation' = generation + 1
            /\ pending' = pending \cup {generation + 1}
  /\ IF clockState = "stopped"
       THEN /\ pulses_since_origin' = 0
            /\ beats_since_origin' = 0
            /\ tick' = 0
            /\ processed' = <<>>
            /\ players' = [k \in PlayerKeys |->
                             IF players[k].exists
                               THEN [players[k] EXCEPT !.restarted = TRUE]
                               ELSE players[k]]
       ELSE UNCHANGED <<pulses_since_origin, beats_since_origin, tick, processed,
                        players>>

\* Clock.pause(): polling is frozen, the position is kept, the scheduled
\* callback becomes stale
ClockPause ==
  /\ clockState' = IF clockState = "running" THEN "paused" ELSE clockState
  /\ generation' = generation + 1
  /\ UNCHANGED <<pulses_since_origin, beats_since_origin, tick, processed, pending,
                 players>>

\* the frame of a transport command
TransportFrame ==
  /\ UNCHANGED <<bpm, ppqn, time_signature, gate>>
  /\ UNCHANGED <<files, universeObjs, universes, selected_universe, editor_mode,
                 local_index>>
  /\ UNCHANGED ctrVars
  /\ UNCHANGED errVars
  /\ UNCHANGED track

\* UserAPI.play and Ctrl+P
play ==
  /\ generation < MaxGen
  /\ ClockStart
  /\ op' = ClockOp("play", <<>>, NoRun(files))
  /\ TransportFrame

\* UserAPI._playDocExample(code): starts the clock, makes the example the
\* candidate of the global buffer and evaluates it
playDocExample(code) ==
  LET g == Selected.global
      r == TryEvaluate(NoRun([files EXCEPT ![g].candidate = code]), g)
  IN /\ Alive
     /\ r.files[g].evaluations <= MaxEvals
     /\ ClockStart
     /\ files' = r.files
     /\ op' = Op("docexample", <<>>, r)
     /\ UNCHANGED <<bpm, ppqn, time_signature, gate>>
     /\ UNCHANGED <<universeObjs, universes, selected_universe, editor_mode,
                    local_index>>
     /\ UNCHANGED ctrVars
     /\ UNCHANGED errVars
     /\ UNCHANGED track

\* a mutant: pause resets the position as stop does
pauseStopping ==
  /\ generation < MaxGen
  /\ ClockStop
  /\ op' = ClockOp("pause", <<>>, NoRun(files))
  /\ TransportFrame

\* UserAPI.pause and Ctrl+S
pause ==
  /\ generation < MaxGen
  /\ ClockPause
  /\ op' = ClockOp("pause", <<>>, NoRun(files))
  /\ TransportFrame

\* a mutant: stop keeps the position as pause does
stopPausing ==
  /\ generation < MaxGen
  /\ ClockPause
  /\ op' = ClockOp("stop", <<>>, NoRun(files))
  /\ TransportFrame

\* UserAPI.stop (also silence, hush) and Ctrl+R
stop ==
  /\ generation < MaxGen
  /\ ClockStop
  /\ op' = ClockOp("stop", <<>>, NoRun(files))
  /\ TransportFrame

\* a mutant: the error of an evaluation leaves the boundary
EscapesOnThrow(r) == r.oks # <<>> /\ ~r.oks[Len(r.oks)]

\* whether the error of the boundary's evaluation leaves the poll callback: it
\* is caught at the boundary
Escapes(r) == FALSE

\* the state a poll works on
PollState ==
  [tick |-> tick, pulses |-> pulses_since_origin, beats |-> beats_since_origin,
   run |-> NoRun(files), players |-> players, processed |-> processed,
   escaped |-> FALSE]

\* one pulse boundary: the counters advance, the global buffer is evaluated,
\* the script queries the players in `keys`
Boundary(c, keys) ==
  LET r == TryEvaluate(c.run, Selected.global)
  IN [tick |-> c.tick + 1,
      pulses |-> c.tick,
      beats |-> c.tick \div ppqn,
      run |-> r,
      players |-> QueryPlayers(c.players, keys, c.tick),
      processed |-> Append(c.processed, c.tick),
      escaped |-> Escapes(r)]

\* history of a player: whether the last boundary queried it, the pulse of its
\* last consumption, and whether every boundary since then has queried it
\* with no restart of the clock in between
NoTrack == [asked |-> FALSE, by |-> {}, consumedAt |-> 0, steady |-> FALSE]

Tracked(k, calls, ps, pulses) ==
  LET by == {c \in calls : KeyOf(c) = k}
  IN IF by = {}
       THEN [track[k] EXCEPT !.asked = FALSE, !.by = {}, !.steady = FALSE]
       ELSE IF ps[k].ziffers # players[k].ziffers
         THEN [asked |-> TRUE, by |-> by, consumedAt |-> pulses, steady |-> TRUE]
         ELSE [track[k] EXCEPT !.asked = TRUE, !.by = by,
                               !.steady = track[k].steady /\ ~players[k].restarted]

\* the live poll callback finds one boundary elapsed: the boundary is processed,
\* the script evaluates z(input, options).sound(...) for the calls in `calls`
PulseQuery(calls) ==
  LET c == Boundary(PollState, KeysOf(calls))
  IN /\ clockState = "running"
     /\ generation \in pending
     /\ tick < MaxBoundaries
     /\ pulses_since_origin' = c.pulses
     /\ beats_since_origin' = c.beats
     /\ tick' = c.tick
     /\ processed' = c.processed
     /\ players' = c.players
     /\ files' = c.run.files
     /\ pending' = IF c.escaped THEN pending \ {generation} ELSE pending
     /\ op' = ClockOp("poll", <<1>>, c.run)
     /\ track' = [k \in PlayerKeys |-> Tracked(k, calls, c.players, c.pulses)]
     /\ UNCHANGED <<clockState, generation>>
     /\ UNCHANGED <<bpm, ppqn, time_signature, gate>>
     /\ UNCHANGED <<universeObjs, universes, selected_universe, editor_mode,
                    local_index>>
     /\ UNCHANGED <<counters, ctrCalls>>
     /\ UNCHANGED <<error_line, errorTimeoutID, timers, now, reported>>

\* patternCache is an LRU cache with a time to live: the entry of a key expires
CacheExpires(k) ==
  /\ players[k].exists
  /\ players' = [players EXCEPT ![k] = NoPlayer]
  /\ track' = [track EXCEPT ![k] = NoTrack]
  /\ op' = ClockOp("expire", <<>>, NoRun(files))
  /\ UNCHANGED <<clockState, beats_since_origin, tick, generation, pending,
                 processed>>
  /\ UNCHANGED gateVars
  /\ UNCHANGED <<files, universeObjs, universes, selected_universe, editor_mode,
                 local_index>>
  /\ UNCHANGED <<counters, ctrCalls>>
  /\ UNCHANGED <<error_line, errorTimeoutID, timers, now, reported>>

\* a mutant: a poll that finds several boundaries elapsed processes the last
ProcessLatest(c, qs) ==
  IF qs = <<>> THEN c
  ELSE Boundary([c EXCEPT !.tick = c.tick + Len(qs) - 1], qs[Len(qs)])

\* the boundaries a poll finds elapsed, each processed in turn; qs[i] is the
\* set of players the script queries at the i-th
RECURSIVE ProcessAll(_, _)
ProcessAll(c, qs) ==
  IF qs = <<>> \/ c.escaped THEN c
  ELSE ProcessAll(Boundary(c, Head(qs)), Tail(qs))

\* a scheduled poll callback fires: a stale one returns at once; the live one
\* processes the elapsed boundaries and schedules the next poll
PollFire(g, qs) ==
  /\ g \in pending
  /\ IF g # generation
       THEN /\ qs = <<>>
            /\ pending' = pending \ {g}
            /\ op' = ClockOp("stale", <<>>, NoRun(files))
            /\ UNCHANGED <<pulses_since_origin, beats_since_origin, tick, processed,
                           players, files>>
       ELSE LET c == ProcessAll(PollState, qs)
            IN /\ tick + Len(qs) <= MaxTick
               /\ pulses_since_origin' = c.pulses
               /\ beats_since_origin' = c.beats
               /\ tick' = c.tick
               /\ processed' = c.processed
               /\ players' = c.players
               /\ files' = c.run.files
               /\ pending' = IF c.escaped THEN pending \ {g} ELSE pending
               /\ op' = ClockOp("poll", <<Len(qs)>>, c.run)
  /\ UNCHANGED <<clockState, generation>>
  /\ UNCHANGED <<bpm, ppqn, time_signature, gate>>
  /\ UNCHANGED <<universeObjs, universes, selected_universe, editor_mode, local_index>>
  /\ UNCHANGED ctrVars
  /\ UNCHANGED errVars
  /\ UNCHANGED track

ClockInit ==
  /\ ErrorInit
  /\ track = [k \in PlayerKeys |-> NoTrack]
  /\ clockState = "stopped"
  /\ beats_since_origin = 0
  /\ tick = 0
  /\ generation = 0
  /\ pending = {}
  /\ processed = <<>>
  /\ players = [k \in PlayerKeys |-> NoPlayer]

\* the Universe objects of the template and of the settings, and their Files
StoredObjs ==
  [u \in UniverseIds |->
     LET base == IF u = TemplateUniverse THEN 0 ELSE NLocals + 2
     IN [global |-> base + 1, init |-> base + 2,
         locals |-> [k \in Slots |-> base + 2 + k]]]

\* the universes the constructor reads from the settings: the global buffer of
\* the Default universe holds `text`
BufferInitFrom(text) ==
  /\ universeObjs = StoredObjs
  /\ files = [f \in FileIds |->
                IF f = universeObjs["Default"].global
                  THEN [EmptyFile EXCEPT !.candidate = text]
                  ELSE EmptyFile]
  /\ universes = [n \in UniverseNames |-> IF n = "Default" THEN "Default" ELSE NoUniverse]
  /\ selected_universe = "Default"
  /\ editor_mode = "global"
  /\ local_index = 1
  /\ op = [name |-> "init", args |-> <<>>, oks |-> <<>>, ran |-> <<>>, reports |-> 0,
           fids |-> <<>>, step |-> 0]

BufferInit == BufferInitFrom("")

\* the end of the constructor: the init script of the selected universe, which
\* holds `text`, is evaluated
ConstructedFrom(text) ==
  LET i == StoredObjs["Default"].init
      fs == [f \in FileIds |->
               IF f = i THEN [EmptyFile EXCEPT !.candidate = text] ELSE EmptyFile]
      r == TryEvaluate(NoRun(fs), i)
  IN /\ universeObjs = StoredObjs
     /\ files = r.files
     /\ universes = [n \in UniverseNames |->
                       IF n = "Default" THEN "Default" ELSE NoUniverse]
     /\ selected_universe = "Default"
     /\ editor_mode = "global"
     /\ local_index = 1
     /\ op = [name |-> "load", args |-> <<>>, oks |-> r.oks, ran |-> r.ran,
              reports |-> r.reports, fids |-> r.fids, step |-> 0]

CounterInit ==
  /\ counters = [n \in Names |-> NoCounter]
  /\ ctrCalls = [n \in Names |-> NoCalls]

GateInit ==
  /\ pulses_since_origin = 0
  /\ bpm = 120
  /\ ppqn = 1
  /\ time_signature = <<4, 4>>
  /\ gate = NoGate

Limits == {Undefined} \cup (0..MaxLimit)
Steps == {Undefined} \cup (1..MaxStep)

InitCounter == CounterInit /\ GateInit /\ BufferInit /\ ClockInit

NextCounter ==
  \E name \in Names, limit \in Limits, step \in Steps : counter(name, limit, step)

SpecCounter == InitCounter /\ [][NextCounter]_vars

\* the values scripts pass to mod(): num/den beats
Values == [num : 0..MaxNum, den : {1, 2, 4}]
ValueLists == {<<v>> : v \in Values} \cup {<<v, w>> : v \in Values, w \in Values}
BarArgs == 1..MaxBarArg
BarLists == {<<b>> : b \in BarArgs} \cup {<<b, c>> : b \in BarArgs, c \in BarArgs}

\* the beats scripts pass to onbeat(): halves up to MaxBeatNum/2, alone, and the
\* four beats of the bar together
BeatValues == [num : 0..MaxBeatNum, den : {2}]
Beat(k) == [num |-> 2 * k, den |-> 2]
BeatLists == {<<b>> : b \in BeatValues} \cup {<<Beat(1), Beat(2), Beat(3), Beat(4)>>}

InitGate == CounterInit /\ GateInit /\ BufferInit /\ ClockInit

NextGate ==
  \/ GatePulse
  \/ \E n \in 1..MaxPpqn : SetPpqn(n)
  \/ \E values \in ValueLists : CallMod(values)
  \/ \E n \in BarArgs, bars \in BarLists : CallOnBar(n, bars)
  \/ \E chunk \in Values : CallDiv(chunk)
  \/ \E beats \in BeatLists : CallOnBeat(beats)

SpecGate == InitGate /\ [][NextGate]_vars

\* the error line: reports, the hide timer, the passing of time
InitError == CounterInit /\ GateInit /\ BufferInit /\ ClockInit

NextError ==
  \/ \E e \in Errors : reportError(e)
  \/ HideTimerFires
  \/ TimePasses

SpecError == InitError /\ [][NextError]_vars

\* the transport settings: the tempos and resolutions a script passes
BpmArgs == {Undefined, 0 - 1, 0, 1, 120, 500, 501}
PpqnArgs == {Undefined, 0 - 1, 0, 1, MaxPpqn, 48}

InitTempo == CounterInit /\ GateInit /\ BufferInit /\ ClockInit

NextTempo ==
  \/ \E n \in BpmArgs : CallBpm(n)
  \/ \E n \in PpqnArgs : CallPpqn(n)

SpecTempo == InitTempo /\ [][NextTempo]_vars

(***************************************************************************)
(* The rhythmic generators euclid and bin                                  *)
(***************************************************************************)
\* a % m of JavaScript for integers: the sign of the dividend, NaN for m = 0
JsRemTrunc(a, m) ==
  IF m = 0 THEN NaN
  ELSE IF a >= 0 THEN a % m ELSE 0 - ((0 - a) % m)

\* arr[idx] for a zero-based index: undefined outside the array and at NaN
ArrayAt(arr, idx) ==
  IF idx \in 0..(Len(arr) - 1)
    THEN [defined |-> TRUE, value |-> arr[idx + 1]]
    ELSE [defined |-> FALSE, value |-> FALSE]

\* arr.slice(from, to) for from, to >= 0
Slice(arr, from, to) ==
  LET a == IF from > Len(arr) THEN Len(arr) ELSE from
      b == IF to > Len(arr) THEN Len(arr) ELSE to
  IN SubSeq(arr, a + 1, b)

\* a mutant: the cycle marks the steps that do not start a descent
startsAscent(list, i) == ~(list[i + 1] > list[((i + 1) % Len(list)) + 1])

\* startsDescent(list, i): list[i] > list[(i + 1) % length], i zero-based
startsDescent(list, i) == list[i + 1] > list[((i + 1) % Len(list)) + 1]

\* a mutant: the cycle is rotated right
euclidean_cycleRight(pulses, length, rotate) ==
  IF pulses = length THEN [i \in 1..length |-> TRUE]
  ELSE IF pulses >= length THEN <<TRUE>>
  ELSE LET resList == [i \in 1..length |->
                         JsRemTrunc(JsRemTrunc(pulses * ((i - 1) - 1), length) + length,
                                    length)]
           cycle == [i \in 1..length |-> startsDescent(resList, i - 1)]
       IN IF rotate # 0
            THEN [i \in 1..length |-> cycle[((i - 1 - rotate) % length) + 1]]
            ELSE cycle

\* _euclidean_cycle(pulses, length, rotate)
euclidean_cycle(pulses, length, rotate) ==
  IF pulses = length THEN [i \in 1..length |-> TRUE]
  ELSE IF pulses >= length THEN <<TRUE>>
  ELSE LET resList == [i \in 1..length |->
                         JsRemTrunc(JsRemTrunc(pulses * ((i - 1) - 1), length) + length,
                                    length)]
           cycle == [i \in 1..length |-> startsDescent(resList, i - 1)]
       IN IF rotate # 0
            THEN Slice(cycle, rotate, Len(cycle)) \o Slice(cycle, 0, rotate)
            ELSE cycle

\* euclid(iterator, pulses, length, rotate)
euclid(iterator, pulses, length, rotate) ==
  ArrayAt(euclidean_cycle(pulses, length, rotate), JsRemTrunc(iterator, length))

\* a mutant: the digits are read least significant first
RECURSIVE toStringLsb(_)
toStringLsb(n) ==
  IF n < 2 THEN <<n = 1>> ELSE <<n % 2 = 1>> \o toStringLsb(n \div 2)

\* n.toString(2).split("").map(x => x === "1") for an integer n >= 0
RECURSIVE toString2(_)
toString2(n) ==
  IF n < 2 THEN <<n = 1>> ELSE Append(toString2(n \div 2), n % 2 = 1)

\* bin(iterator, n)
bin(iterator, n) ==
  LET tobin == toString2(n)
  IN ArrayAt(tobin, JsRemTrunc(iterator, Len(tobin)))

\* history: a generator call that a script is about to make
NotCalled == [calls |-> 0, defined |-> FALSE, value |-> FALSE]

\* the result of one more call
Called(r) == [calls |-> gate.res.calls + 1, defined |-> r.defined, value |-> r.value]

\* the frame of a generator call: it writes nothing
CycleFrame ==
  /\ UNCHANGED <<pulses_since_origin, bpm, ppqn, time_signature>>
  /\ UNCHANGED ctrVars
  /\ UNCHANGED errVars
  /\ UNCHANGED track
  /\ UNCHANGED clkVars
  /\ UNCHANGED bufVars

\* a script calls euclid(iterator, pulses, length, rotate)
CallEuclid ==
  /\ gate.fn = "euclid"
  /\ gate.res.calls < MaxRepeat
  /\ gate' = [gate EXCEPT !.res = Called(euclid(gate.args[1], gate.args[2],
                                                gate.args[3], gate.args[4]))]
  /\ CycleFrame

\* a script calls bin(iterator, n)
CallBin ==
  /\ gate.fn = "bin"
  /\ gate.res.calls < MaxRepeat
  /\ gate' = [gate EXCEPT !.res = Called(bin(gate.args[1], gate.args[2]))]
  /\ CycleFrame

\* the calls scripts make
CycleCalls ==
  {[fn |-> "euclid", n |-> 0, args |-> <<i, p, l, r>>, res |-> NotCalled] :
     i \in 0..MaxIter, p \in 0..MaxCycle, l \in 0..MaxCycle, r \in 0..MaxRotate}
  \cup
  {[fn |-> "bin", n |-> 0, args |-> <<i, n>>, res |-> NotCalled] :
     i \in 0..MaxIter, n \in 0..MaxBin}

InitCycle ==
  /\ CounterInit /\ BufferInit /\ ClockInit
  /\ pulses_since_origin = 0
  /\ bpm = 120
  /\ ppqn = 1
  /\ time_signature = <<4, 4>>
  /\ gate \in CycleCalls

NextCycle ==
  \/ CallEuclid
  \/ CallBin

SpecCycle == InitCycle /\ [][NextCycle]_vars

(***************************************************************************)
(* Claims about counter()                                                  *)
(***************************************************************************)
\* the calls of `name` so far were all counter(name, limit) with the default step
OnlyCalled(name, limit) ==
  /\ ctrCalls[name].n >= 1
  /\ ctrCalls[name].same
  /\ ctrCalls[name].limit = limit
  /\ ctrCalls[name].step = Undefined

\* C1 as stated: the k-th call of counter("x", 3) on a fresh name returns
\* k mod 4, i.e. 1,2,3,0,1,2,3,0,... with the very first call returning 1.
C1_FirstCallReturnsOne ==
  \A name \in Names :
    OnlyCalled(name, 3) => ctrCalls[name].ret = ctrCalls[name].n % 4

\* C1 amended: the k-th call of counter("x", 3) on a fresh name returns
\* (k-1) mod 4, i.e. 0,1,2,3,0,1,2,3,...: the first call returns the seed 0.
C1_CounterCycleFromZero ==
  \A name \in Names :
    OnlyCalled(name, 3) => ctrCalls[name].ret = (ctrCalls[name].n - 1) % 4

\* the fifth call of counter("x", 3) has wrapped back to 0 after 0,1,2,3
C1_Witness ==
  \E name \in Names :
    OnlyCalled(name, 3) /\ ctrCalls[name].n = 5 /\ ctrCalls[name].ret = 0

\* counter(name, ...) is called
CallOf(name) == ctrCalls'[name].n = ctrCalls[name].n + 1

\* value v after the overshoot check against `limit`
Wrapped(v, limit) == IF limit # Undefined /\ v > limit THEN 0 ELSE v

C18_ExistingCounterLaw ==
  [][\A name \in Names :
       CallOf(name) /\ counters[name].exists =>
         LET c == counters[name]
             d == counters'[name]
             limit == ctrCalls'[name].passed[1]
             step == ctrCalls'[name].passed[2]
             base == IF limit # c.limit THEN 0 ELSE c.value
         IN /\ d.limit = limit
            /\ d.step = IF step # Undefined THEN step ELSE c.step
            /\ d.value = Wrapped(base + d.step, limit)
            /\ ctrCalls'[name].ret = d.value]_vars

\* counter(name), counter(name), then counter(name, 2, 2): the new limit has
\* reset the value 1 to 0 and the new step has been added
C18_Witness ==
  \E name \in Names :
    /\ ctrCalls[name].n = 3
    /\ ~ctrCalls[name].same
    /\ ctrCalls[name].passed = <<2, 2>>
    /\ counters[name] = [value |-> 2, step |-> 2, limit |-> 2, exists |-> TRUE]

\* script(k) and script(k, k+1)
ScriptArgs == {<<k>> : k \in Slots} \cup {<<k, k + 1>> : k \in Slots \ {NLocals}}

InitBuffer == CounterInit /\ GateInit /\ BufferInit /\ ClockInit

NextBuffer ==
  \/ \E text \in Texts : EvalKey(text)
  \/ \E text \in Texts : ShareButton(text)
  \/ \E text \in Texts : BeforeUnload(text)
  \/ \E n \in {0, MaxEvals} : SetIteration(n)
  \/ \E k \in Slots : clear_script(k)
  \/ \E from \in Slots : \E to \in Slots \ {from} : copy_script(from, to)
  \/ \E args \in ScriptArgs : script(args)
  \/ PulseEval
  \/ ClearButton
  \/ \E mode \in {"global", "local"} : changeModeFromInterface(mode)
  \/ \E i \in Slots, text \in Texts : TabClick(i, text)

SpecBuffer == InitBuffer /\ [][NextBuffer]_vars

\* the universes: loading and creating them, the clear button, edits, evaluations
InitUniverse == CounterInit /\ GateInit /\ BufferInit /\ ClockInit

NextUniverse ==
  \/ \E name \in UniverseNames, text \in Texts : loadUniverse(name, text)
  \/ ClearButton
  \/ \E text \in Texts : EvalKey(text)
  \/ \E text \in Texts : ShareButton(text)
  \/ \E args \in ScriptArgs : script(args)
  \/ PulseEval
  \/ \E mode \in {"global", "local"} : changeModeFromInterface(mode)

SpecUniverse == InitUniverse /\ [][NextUniverse]_vars

\* the evaluations: program load, pulse boundaries, script(), universe loads,
\* documentation examples, next to the operations that evaluate nothing
InitEval ==
  /\ CounterInit /\ GateInit /\ ClockInit
  /\ \E text \in Texts : ConstructedFrom(text)

NextEval ==
  \/ PulseEval
  \/ \E args \in ScriptArgs : script(args)
  \/ \E name \in UniverseNames, text \in Texts : loadUniverse(name, text)
  \/ \E code \in Texts : playDocExample(code)
  \/ \E text \in Texts : EvalKey(text)
  \/ \E mode \in {"global", "init", "local"} : changeModeFromInterface(mode)
  \/ \E i \in Slots, text \in Texts : TabClick(i, text)

SpecEval == InitEval /\ [][NextEval]_vars

\* the players a script queries at each boundary a poll processes
Queries == UNION {[1..k -> SUBSET SteadyKeys] : k \in 0..MaxElapsed}

InitClock ==
  /\ CounterInit /\ ClockInit
  /\ \E text \in Texts : BufferInitFrom(text)
  /\ pulses_since_origin = 0
  /\ bpm = 120
  /\ ppqn \in 1..MaxPpqn
  /\ time_signature = <<4, 4>>
  /\ gate = NoGate

NextClock ==
  \/ play
  \/ pause
  \/ stop
  \/ \E g \in 1..MaxGen, qs \in Queries : PollFire(g, qs)

SpecClock == InitClock /\ [][NextClock]_vars

\* the players pulse by pulse: the transport and polls that find one boundary
InitPlayer == InitClock

NextPlayer ==
  \/ play
  \/ pause
  \/ stop
  \/ \E calls \in SUBSET SteadyCalls : PulseQuery(calls)

SpecPlayer == InitPlayer /\ [][NextPlayer]_vars

\* the pattern cache: evaluations that make up to MaxZCalls calls of z with
\* different keys, the start of the clock, the expiry of an entry
ZCallSets ==
  {S \in SUBSET ZCalls :
     Cardinality(S) <= MaxZCalls /\ Cardinality(KeysOf(S)) = Cardinality(S)}

InitCache ==
  /\ CounterInit /\ ClockInit /\ BufferInit
  /\ pulses_since_origin = 0
  /\ bpm = 120
  /\ ppqn \in 1..MaxPpqn
  /\ time_signature = <<4, 4>>
  /\ gate = NoGate

NextCache ==
  \/ play
  \/ \E calls \in ZCallSets : tick < MaxCacheTicks /\ PulseQuery(calls)
  \/ \E k \in PlayerKeys : CacheExpires(k)

SpecCache == InitCache /\ [][NextCache]_vars

(***************************************************************************)
(* Claims about the script buffers                                         *)
(***************************************************************************)
\* the law of one evaluation of File f: commit on success, report on failure
CommitOnSuccess(f) ==
  IF Throws(files[f].candidate)
    THEN /\ files'[f].committed = files[f].committed
         /\ files'[f].evaluations = files[f].evaluations
         /\ op'.reports = 1
         /\ op'.ran = <<files[f].committed>>
    ELSE /\ files'[f].committed = files[f].candidate
         /\ files'[f].evaluations = files[f].evaluations + 1
         /\ op'.reports = 0

\* C3: an evaluation that succeeds sets committed := candidate and adds exactly
\* 1 to evaluations; one whose candidate throws leaves committed and
\* evaluations unchanged, sends exactly one report to the error sink, and the
\* previously committed text stays the one in force.  Stated for the pulse's
\* evaluation of the global buffer and for script(k) of local buffer k.
C3_CommitOnSuccess ==
  [][/\ op'.name = "pulse" => CommitOnSuccess(Selected.global)
     /\ (op'.name = "script" /\ Len(op'.args) = 1) =>
          CommitOnSuccess(Selected.locals[op'.args[1]])]_vars

\* a pulse whose candidate threw after an earlier one had been committed
C3_Witness ==
  /\ op.name = "pulse" /\ op.oks = <<FALSE>> /\ op.reports = 1
  /\ files[Selected.global].candidate = "bad"
  /\ files[Selected.global].committed = "ok"
  /\ files[Selected.global].evaluations = 1

\* the buffers of a universe, by their place in it
BufferPaths == {<<"global", 0>>, <<"init", 0>>} \cup {<<"local", k>> : k \in Slots}

\* the File at a place of the universe called n
FileAt(uos, us, n, path) ==
  LET u == uos[us[n]]
  IN CASE path[1] = "global" -> u.global
       [] path[1] = "init" -> u.init
       [] path[1] = "local" -> u.locals[path[2]]

\* some buffer of some universe has another committed text or evaluations count
CommittedChanges ==
  \E n \in UniverseNames, path \in BufferPaths :
    /\ universes[n] # NoUniverse /\ universes'[n] # NoUniverse
    /\ LET old == files[FileAt(universeObjs, universes, n, path)]
           new == files'[FileAt(universeObjs', universes', n, path)]
       IN old.committed # new.committed \/ old.evaluations # new.evaluations

\* the operation just made is an evaluation that succeeded
EvaluatedWithSuccess ==
  op'.name \in {"pulse", "script", "loadUniverse"} /\ \E i \in 1..Len(op'.oks) : op'.oks[i]

\* C4 as stated: committed and evaluations of a buffer change only by a
\* successful evaluation.
C4_OnlyEvaluatorWrites ==
  [][CommittedChanges => EvaluatedWithSuccess]_vars

\* C4 amended: committed and evaluations of a buffer change only by a
\* successful evaluation or by the share button, page unload, i(n),
\* clear_script, copy_script or the universe reset; no other operation
\* (setting the candidate, changing mode or tab, a failing evaluation) does.
C4_WritersOfCommitted ==
  [][CommittedChanges =>
       \/ EvaluatedWithSuccess
       \/ op'.name \in {"share", "beforeunload", "i", "clear_script", "copy_script",
                        "clear"}]_vars

\* the share button has committed a text that was never evaluated
C4_Witness ==
  /\ op.name = "share"
  /\ files[currentFile].committed = "bad"
  /\ files[currentFile].evaluations = 0

(***************************************************************************)
(* Claims about the rhythm gates                                           *)
(***************************************************************************)
\* a bar number reduced into 1..n
ReduceBar(b, n) == ((b - 1) % n) + 1

\* C2: onbar(n, ...bars) is true iff the current bar, reduced into 1..n by
\* ((bar-1) mod n)+1, equals one of the listed bars reduced the same way.
C2_OnbarFollowsCurrentBar ==
  gate.fn = "onbar" =>
    (gate.res <=>
      \E i \in 1..Len(gate.args) :
        ReduceBar(gate.args[i], gate.n) = ReduceBar(bar, gate.n))

\* C10: mod(v1, ..., vk) is true iff some vi with floor(vi*ppqn) >= 1 has
\* pulses_since_origin mod floor(vi*ppqn) = 0; mod(1) is true exactly at the
\* multiples of ppqn.
C10_ModIsOrOfPeriods ==
  gate.fn = "mod" =>
    /\ gate.res <=>
         \E i \in 1..Len(gate.args) :
           LET period == (gate.args[i].num * ppqn) \div gate.args[i].den
           IN period >= 1 /\ pulses_since_origin % period = 0
    /\ gate.args = <<[num |-> 1, den |-> 1]>> =>
         (gate.res <=> pulses_since_origin % ppqn = 0)

\* mod(a, b) past the origin where a alone is false and b makes the call true
C10_Witness ==
  /\ gate.fn = "mod" /\ Len(gate.args) = 2 /\ gate.res
  /\ pulses_since_origin > 0 /\ ppqn > 1
  /\ ~Mod(<<gate.args[1]>>)
  /\ FloorTimes(gate.args[2], ppqn) > 1

\* floor(v * ppqn), the period of an argument v = num/den of mod and div
Period(v) == (v.num * ppqn) \div v.den

\* C11: an argument of mod whose period floor(value*ppqn) is 0 is never true,
\* at pulse 0 as at any other; the call returns a boolean, and it returns what
\* the arguments with a period >= 1 give.
C11_ModZeroPeriodNeverTrue ==
  gate.fn = "mod" =>
    /\ gate.res \in BOOLEAN
    /\ (\A i \in 1..Len(gate.args) : Period(gate.args[i]) = 0) => ~gate.res
    /\ \A i \in 1..Len(gate.args) :
         Period(gate.args[i]) = 0 =>
           (gate.res <=>
              \E j \in (1..Len(gate.args)) \ {i} :
                /\ Period(gate.args[j]) >= 1
                /\ pulses_since_origin % Period(gate.args[j]) = 0)

\* mod(0.25) at ppqn 2 and pulse 0: the period is 0 and the gate is closed
C11_Witness ==
  /\ gate.fn = "mod"
  /\ gate.args = <<[num |-> 1, den |-> 4]>>
  /\ ppqn = 2
  /\ pulses_since_origin = 0
  /\ ~gate.res

\* C12: for a chunk with floor(chunk*ppqn) >= 1, div(chunk) is true iff
\* floor(pulses_since_origin / floor(chunk*ppqn)) is even; div(2) is true on
\* the pulses [0, 2*ppqn), false on [2*ppqn, 4*ppqn), true on [4*ppqn, 6*ppqn),
\* and so on.
C12_DivFlipFlop ==
  gate.fn = "div" =>
    LET chunk == gate.args[1]
    IN /\ Period(chunk) >= 1 =>
            (gate.res <=> (pulses_since_origin \div Period(chunk)) % 2 = 0)
       /\ chunk = [num |-> 2, den |-> 1] =>
            (gate.res <=> pulses_since_origin % (4 * ppqn) < 2 * ppqn)

\* div(2) at ppqn 2 is true again at pulse 9, in the third span
C12_Witness ==
  /\ gate.fn = "div"
  /\ gate.args = <<[num |-> 2, den |-> 1]>>
  /\ ppqn = 2
  /\ pulses_since_origin = 9
  /\ gate.res

\* the four beats of the bar
FourBeats == <<Beat(1), Beat(2), Beat(3), Beat(4)>>

\* C16 as stated: onbeat(...beats) is true iff for some listed b the current
\* beat is floor(b) and the pulse within the beat is (b - floor(b))*ppqn;
\* onbeat(1,2,3,4) is true at the first pulse of every beat and at no other.
C16_OnbeatMatchesListedBeat ==
  gate.fn = "onbeat" =>
    /\ gate.res <=> \E i \in 1..Len(gate.args) : OnBeatHit(gate.args[i])
    /\ gate.args = FourBeats => (gate.res <=> TimePositionPulse = 0)


(***************************************************************************)
(* Claims about the clock and the players                                  *)
(***************************************************************************)
\* C5: a poll that finds k >= 1 boundaries elapsed evaluates the global buffer
\* once for each of them, one after the other, and the pulse numbers processed
\* since the origin are 0, 1, 2, ... with no gap and no repeat.
C5_BoundariesInOrder ==
  /\ Len(processed) = tick
  /\ \A i \in 1..Len(processed) : processed[i] = i - 1
  /\ (op.name = "poll" => Len(op.oks) = op.args[1])

\* one poll has processed two boundaries, the second and third since the origin
C5_Witness ==
  /\ op.name = "poll"
  /\ op.args = <<2>>
  /\ processed = <<0, 1, 2>>

\* a callback scheduled before the last pause or stop fires
StaleCallbackFires == \E g \in pending : g # generation /\ pending' = pending \ {g}

\* C6: stop() leaves the clock stopped with pulses_since_origin,
\* beats_since_origin and tick at 0, where they stay while the clock is
\* stopped; a poll callback scheduled before a pause() or stop() that fires
\* after it changes neither the clock, nor the buffers, nor the players.
C6_StopResetsStaleIsInert ==
  [][/\ (op'.name = "stop" => clockState' = "stopped")
     /\ (clockState' = "stopped" =>
           pulses_since_origin' = 0 /\ beats_since_origin' = 0 /\ tick' = 0)
     /\ (StaleCallbackFires =>
           UNCHANGED <<pulses_since_origin, beats_since_origin, tick, clockState,
                       generation, processed, players, files, counters>>)]_vars

\* boundaries were processed, the clock was stopped, and the callback scheduled
\* before the stop has fired since
C6_Witness ==
  /\ op.name = "stale"
  /\ clockState = "stopped"
  /\ pending = {}
  /\ files[Selected.global].evaluations > 0
  /\ tick = 0

\* C7: after stop() then start() the pulse count is 0, and the first query of
\* every player after that finds it not started, whatever its state before
\* the stop.
C7_RestartedPlayerNotStarted ==
  /\ (op.name = "play" /\ processed = <<>> => pulses_since_origin = 0)
  /\ \A k \in PlayerKeys :
       players[k].q.asked /\ players[k].q.restarted => players[k].q.notStarted

\* C19: a query made with pulses_since_origin < lastCallTime resets
\* lastCallTime to 0 and index to the value of a new Player, -1, before the
\* due-check.
C19_RewindResetsToSentinel ==
  \A k \in PlayerKeys :
    players[k].q.asked /\ players[k].q.rewound =>
      /\ players[k].q.lastCallTime0 = 0
      /\ players[k].q.index0 = NewPlayer.index

\* the fields of the player that its last query found and left
Consumed(k) == players[k].ziffers = players[k].q.pre.ziffers + 1
Untouched(k) ==
  /\ players[k].ziffers = players[k].q.pre.ziffers
  /\ players[k].current = players[k].q.pre.current
  /\ players[k].firstCallTime = players[k].q.pre.firstCallTime
  /\ players[k].played = players[k].q.pre.played

\* C20 as stated: a query that is not due leaves the cursor, the current
\* element, index, firstCallTime and played as they were; a due query advances
\* the cursor once and adds exactly 1 to index.
C20_QueryFrame ==
  \A k \in PlayerKeys :
    players[k].q.asked =>
      IF players[k].q.due
        THEN Consumed(k) /\ players[k].index = players[k].q.pre.index + 1
        ELSE Untouched(k) /\ players[k].index = players[k].q.pre.index

\* C20 amended: a query that is not due leaves the cursor, the current
\* element, firstCallTime and played as they were and index as the rewind check
\* left it; a due query advances the cursor once and adds exactly 1 to the
\* index the rewind check left; without a rewind the check leaves index as it
\* was.
C20_QueryFrameAfterRewindCheck ==
  \A k \in PlayerKeys :
    players[k].q.asked =>
      /\ ~players[k].q.rewound => players[k].q.index0 = players[k].q.pre.index
      /\ IF players[k].q.due
           THEN Consumed(k) /\ players[k].index = players[k].q.index0 + 1
           ELSE Untouched(k) /\ players[k].index = players[k].q.index0

\* a player waiting on its second element is queried after stop and start: the
\* query is not due and the rewind check has moved its index
C20_Witness ==
  \E k \in PlayerKeys :
    /\ players[k].q.asked
    /\ players[k].q.rewound
    /\ ~players[k].q.due
    /\ players[k].q.pre.index = 1
    /\ players[k].index # players[k].q.pre.index
    /\ players[k].ziffers = 1

\* the number of evaluations of one poll that threw
Failures(oks) == Cardinality({i \in 1..Len(oks) : ~oks[i]})

\* C8: a poll in which the evaluation of a boundary throws advances the
\* counters over each of its k boundaries as a poll without error does,
\* reports each error, leaves the transport state alone and leaves the next
\* poll scheduled; while the clock runs a poll is always scheduled.
C8_BoundaryErrorIsCaught ==
  [][/\ (op'.name = "poll" /\ Failures(op'.oks) > 0 =>
           /\ clockState' = clockState
           /\ generation' = generation
           /\ Len(op'.oks) = op'.args[1]
           /\ op'.reports = Failures(op'.oks)
           /\ tick' = tick + op'.args[1]
           /\ pulses_since_origin' = tick' - 1
           /\ beats_since_origin' = pulses_since_origin' \div ppqn)
     /\ (clockState' = "running" => generation' \in pending')]_vars

\* both boundaries of one poll threw, after an earlier boundary, and the next
\* poll is scheduled
C8_Witness ==
  /\ op.name = "poll"
  /\ op.oks = <<FALSE, FALSE>>
  /\ op.reports = 2
  /\ tick = 3
  /\ clockState = "running"
  /\ generation \in pending

\* C9: pause() keeps pulses_since_origin, beats_since_origin and tick; they
\* stay as they are while the clock is paused; start() from paused resumes
\* with them and schedules a poll; from one running state to the next
\* pulses_since_origin does not decrease.
C9_PauseFreezesStartResumes ==
  [][/\ (op'.name = "pause" \/ (clockState = "paused" /\ op'.name # "stop") =>
           UNCHANGED <<pulses_since_origin, beats_since_origin, tick>>)
     /\ (clockState = "running" /\ op'.name = "pause" => clockState' = "paused")
     /\ (clockState = "paused" /\ op'.name = "play" =>
           clockState' = "running" /\ generation' \in pending')
     /\ (clockState = "running" /\ clockState' = "running" =>
           pulses_since_origin' >= pulses_since_origin)]_vars

\* the clock ran to a pulse after the first, was paused, and has been started
\* again
C9_Witness ==
  /\ op.name = "play"
  /\ clockState = "running"
  /\ generation = 3
  /\ pulses_since_origin > 0

(***************************************************************************)
(* Claims about the rhythmic generators                                    *)
(***************************************************************************)
\* the program state a generator call could write
ProgramState ==
  <<counters, pulses_since_origin, bpm, ppqn, time_signature, files, universeObjs,
    universes, selected_universe, clockState, beats_since_origin, tick, players>>

\* C13: for 0 <= pulses <= length, length >= 1 and rotate = 0 the values
\* euclid(i, pulses, length) for i = 0..length-1 hold exactly `pulses` true
\* entries, euclid(i + length, ...) = euclid(i, ...), and a repeated call with
\* the same arguments returns the same value and changes no state.
C13_EuclidCycle ==
  /\ [](gate.fn = "euclid" /\ gate.res.calls >= 1 /\ gate.args[4] = 0
          /\ gate.args[3] >= 1 /\ gate.args[2] <= gate.args[3] =>
        LET i == gate.args[1]
            pulses == gate.args[2]
            length == gate.args[3]
            shifted == euclid(i + length, pulses, length, 0)
        IN /\ Cardinality({k \in 0..(length - 1) :
                             LET e == euclid(k, pulses, length, 0)
                             IN e.defined /\ e.value}) = pulses
           /\ gate.res.defined
           /\ shifted.defined /\ shifted.value = gate.res.value)
  /\ [][gate'.fn = "euclid" =>
          /\ gate.res.calls >= 1 =>
                gate'.res.defined = gate.res.defined /\ gate'.res.value = gate.res.value
          /\ UNCHANGED ProgramState]_vars

\* euclid(7, 5, 8) has been called twice and is true
C13_Witness ==
  /\ gate.fn = "euclid"
  /\ gate.args = <<7, 5, 8, 0>>
  /\ gate.res.calls = 2
  /\ gate.res.defined /\ gate.res.value

\* C14: euclid(i, pulses, length, rotate) returns true or false, never an
\* undefined value, also when length = 0, pulses > length or rotate > length.
C14_EuclidAlwaysDefined ==
  gate.fn = "euclid" /\ gate.res.calls >= 1 => gate.res.defined

\* the number of binary digits of n >= 1
Digits(n) == CHOOSE d \in 1..(MaxBin + 2) : 2 ^ (d - 1) <= n /\ n < 2 ^ d

\* C15: for n >= 1 and i >= 0, bin(i, n) is the (i mod d)-th binary digit of n,
\* most significant first, d being the number of binary digits of n;
\* bin(i, 34) for i = 0..5 is true,false,false,false,true,false, and
\* bin(i + d, n) = bin(i, n).
C15_BinDigits ==
  gate.fn = "bin" /\ gate.res.calls >= 1 /\ gate.args[2] >= 1 =>
    LET i == gate.args[1]
        n == gate.args[2]
        d == Digits(n)
        shifted == bin(i + d, n)
    IN /\ gate.res.defined
       /\ gate.res.value <=> (n \div (2 ^ (d - 1 - (i % d)))) % 2 = 1
       /\ n = 34 /\ i <= 5 =>
            gate.res.value = <<TRUE, FALSE, FALSE, FALSE, TRUE, FALSE>>[i + 1]
       /\ shifted.defined /\ shifted.value = gate.res.value

\* bin(10, 34) reads the fifth digit of "100010"
C15_Witness ==
  /\ gate.fn = "bin"
  /\ gate.args = <<10, 34>>
  /\ gate.res.calls >= 1
  /\ gate.res.defined /\ gate.res.value

\* counter(name, undefined, s) is the only call made on the name
OnlyCalledWithStep(name, s) ==
  /\ ctrCalls[name].n >= 1
  /\ ctrCalls[name].same
  /\ ctrCalls[name].limit = Undefined
  /\ ctrCalls[name].step = s

\* C25: a counter with no limit and step s starts at 0: the k-th call of
\* counter(name, undefined, s) on a new name returns (k-1)*s, i.e. 0, s, 2s, ...
C25_StepCounterFromZero ==
  \A name \in Names, s \in 1..MaxStep :
    OnlyCalledWithStep(name, s) => ctrCalls[name].ret = (ctrCalls[name].n - 1) * s

\* the fourth call of counter(name, undefined, 2) has returned 6
C25_Witness ==
  \E name \in Names :
    OnlyCalledWithStep(name, 2) /\ ctrCalls[name].n = 4 /\ ctrCalls[name].ret = 6

\* C28: a call of counter(name, L, s) with a limit L >= 0 and a step s >= 1
\* returns a value v with 0 <= v <= L, whatever limits and steps the earlier
\* calls on the name passed.
C28_CounterWithinLimit ==
  \A name \in Names :
    LET h == ctrCalls[name]
    IN (h.n >= 1 /\ h.passed[1] # Undefined /\ h.passed[2] # Undefined) =>
         (0 <= h.ret /\ h.ret <= h.passed[1])

\* after calls with other limits or steps, counter(name, 1, 2) has wrapped to 0:
\* the step is larger than the limit
C28_Witness ==
  \E name \in Names :
    /\ ctrCalls[name].n >= 3
    /\ ~ctrCalls[name].same
    /\ ctrCalls[name].passed = <<1, 2>>
    /\ ctrCalls[name].ret = 0
    /\ counters[name].step = 2

(***************************************************************************)
(* Claims about the universes                                              *)
(***************************************************************************)
\* the contents of the buffers of the universe called n
BuffersOf(fs, uos, us, n) == [path \in BufferPaths |-> fs[FileAt(uos, us, n, path)]]

\* C21: universes are isolated: an operation (loading or creating a universe,
\* the clear button, an edit, an evaluation) changes no buffer of a universe
\* other than the one selected before it and the one selected after it.
C21_UniversesIsolated ==
  [][\A n \in UniverseNames :
       (/\ universes[n] # NoUniverse
        /\ universes'[n] # NoUniverse
        /\ n # selected_universe
        /\ n # selected_universe')
       => BuffersOf(files', universeObjs', universes', n)
            = BuffersOf(files, universeObjs, universes, n)]_vars

(***************************************************************************)
(* Claims about the transport settings                                     *)
(***************************************************************************)
\* the step is a call of the setter fn
Calls(fn) == gate' # gate /\ gate'.fn = fn

\* C22: bpm(n) and ppqn(n) never reject a value: with an argument, whatever it
\* is (below 1, above 500), the clock field is set to n and n is returned; without
\* an argument the current value is returned and no field of the clock changes.
C22_SettersNeverReject ==
  [][/\ Calls("bpm") =>
          /\ ppqn' = ppqn
          /\ IF gate'.args[1] = Undefined
               THEN bpm' = bpm /\ gate'.res = bpm
               ELSE bpm' = gate'.args[1] /\ gate'.res = gate'.args[1]
     /\ Calls("ppqn") =>
          /\ bpm' = bpm
          /\ IF gate'.args[1] = Undefined
               THEN ppqn' = ppqn /\ gate'.res = ppqn
               ELSE ppqn' = gate'.args[1] /\ gate'.res = gate'.args[1]
     /\ (Calls("bpm") \/ Calls("ppqn")) =>
          /\ UNCHANGED <<pulses_since_origin, time_signature>>
          /\ UNCHANGED <<ctrVars, clkVars, bufVars, errVars, track>>]_vars

\* bpm(501) was accepted and ppqn(0) has just been accepted
C22_Witness ==
  /\ gate.fn = "ppqn" /\ gate.args = <<0>> /\ gate.res = 0
  /\ ppqn = 0
  /\ bpm = 501

(***************************************************************************)
(* Claims about the moments a buffer is evaluated                          *)
(***************************************************************************)
\* the buffers of the universe selected after the step
GlobalNow == Selected'.global
InitNow == Selected'.init
LocalsNow == {Selected'.locals[k] : k \in Slots}

\* the step evaluated the File f
Evaluates(f) == op' # op /\ \E i \in 1..Len(op'.fids) : op'.fids[i] = f

\* a local buffer is evaluated only by script(...), once per listed index and
\* in the order of the arguments; the init buffer only by a universe load (the
\* program load is the initial state); a pulse boundary evaluates the global
\* buffer once and nothing else
LocalAndInitOnRequest ==
  /\ (\E f \in LocalsNow : Evaluates(f)) => op'.name = "script"
  /\ (op' # op /\ op'.name = "script") =>
       op'.fids = [i \in 1..Len(op'.args) |-> Selected.locals[op'.args[i]]]
  /\ Evaluates(InitNow) => op'.name = "loadUniverse" /\ op'.fids = <<InitNow>>
  /\ (op' # op /\ op'.name = "pulse") => op'.fids = <<GlobalNow>>

\* C23 as stated: the global buffer is evaluated once per pulse boundary and at
\* no other moment; local buffers only by script(k), once per index in order;
\* the init buffer only on program load and universe load.
C23_EvaluationMoments ==
  /\ (op.name = "load" => op.fids = <<Selected.init>>)
  /\ [][/\ LocalAndInitOnRequest
        /\ Evaluates(GlobalNow) => op'.name = "pulse"]_vars

\* C23 amended: as stated, but the global buffer is also evaluated, once, when a
\* documentation example is played.
C23_EvaluationMomentsWithExamples ==
  /\ (op.name = "load" => op.fids = <<Selected.init>>)
  /\ [][/\ LocalAndInitOnRequest
        /\ Evaluates(GlobalNow) =>
             /\ op'.name \in {"pulse", "docexample"}
             /\ op'.fids = <<GlobalNow>>]_vars

\* script(1, 2) has evaluated the two local buffers in order, after a
\* documentation example was played
C23_Witness ==
  /\ op.name = "script"
  /\ op.args = <<1, 2>>
  /\ op.fids = <<Selected.locals[1], Selected.locals[2]>>
  /\ clockState = "running"

(***************************************************************************)
(* Claims about the error line                                             *)
(***************************************************************************)
\* C24: error reports are displayed transiently: after a report the line shows
\* the reported error and is visible until 2000 ms after the most recent report,
\* and is hidden from then on; a report made while an earlier one is displayed
\* replaces the text and cancels the earlier hide timer, so that at most one
\* hide timer is pending, and it is the one of the most recent report.
C24_ErrorShownTransiently ==
  /\ Cardinality(timers) <= 1
  /\ \A t \in timers : t.id = errorTimeoutID /\ t.due = reported.at + HideDelay
  /\ reported.n > 0 =>
       /\ error_line.text = reported.e
       /\ now < reported.at + HideDelay => ~error_line.hidden
       /\ now > reported.at + HideDelay => error_line.hidden
       /\ error_line.hidden <=> timers = {}

\* a second error was reported 1000 ms after the first one and is still shown
\* 2000 ms after the first one
C24_Witness ==
  /\ reported.n = 2
  /\ reported.at = TimeStep
  /\ now = HideDelay
  /\ error_line = [text |-> reported.e, hidden |-> FALSE]

(***************************************************************************)
(* Claims about the rotation of the euclidean cycle                        *)
(***************************************************************************)
\* the number of true entries of a cycle
Hits(cycle) == Cardinality({k \in 1..Len(cycle) : cycle[k]})

\* C26: rotate rotates the cycle left: for 0 < pulses < length and
\* 0 <= rotate < length, euclid(i, pulses, length, rotate) is
\* euclid(i + rotate, pulses, length, 0), and the rotated cycle has as many true
\* entries as the unrotated one.
C26_RotateLeft ==
  (gate.fn = "euclid" /\ gate.res.calls > 0) =>
    LET i == gate.args[1]
        p == gate.args[2]
        l == gate.args[3]
        r == gate.args[4]
    IN (0 < p /\ p < l /\ r < l) =>
         /\ gate.res.defined
         /\ euclid(i + r, p, l, 0).defined
         /\ gate.res.value = euclid(i + r, p, l, 0).value
         /\ Hits(euclidean_cycle(p, l, r)) = Hits(euclidean_cycle(p, l, 0))

\* a call with a rotation that changes the answer: true where the unrotated
\* cycle is false
C26_Witness ==
  /\ gate.fn = "euclid" /\ gate.res.calls > 0
  /\ 0 < gate.args[2] /\ gate.args[2] < gate.args[3]
  /\ gate.args[4] > 2 /\ gate.args[4] < gate.args[3]
  /\ gate.res.defined /\ gate.res.value
  /\ ~euclid(gate.args[1], gate.args[2], gate.args[3], 0).value

(***************************************************************************)
(* Claims about the timing of the players                                  *)
(***************************************************************************)
\* the step is a pulse boundary that queries player k, which has been queried
\* at every boundary since its last consumption, with no restart of the clock
SteadyQuery(k) ==
  /\ tick' = tick + 1
  /\ track'[k].asked
  /\ track[k].steady
  /\ ~players[k].restarted
  /\ players[k].current # 0

\* the length in pulses of the element player k consumed last, times its
\* denominator
TicksTimesDen(k) == Pattern[players[k].current].num * 4 * ppqn

Left(p) ==
  [firstCallTime |-> p.firstCallTime, lastCallTime |-> p.lastCallTime,
   index |-> p.index, current |-> p.current]

\* all the fields of a Player and the cursor of its pattern
Fields(p) ==
  [exists |-> p.exists, firstCallTime |-> p.firstCallTime,
   lastCallTime |-> p.lastCallTime, waitTime |-> p.waitTime, played |-> p.played,
   current |-> p.current, index |-> p.index, ziffers |-> p.ziffers]

\* the step is an evaluation at a pulse boundary
Evaluation == tick' = tick + 1

\* C30 as stated: while its cache entry exists, a call z(input, options) returns
\* the Player of that input and options with firstCallTime, lastCallTime, index
\* and current element as the previous evaluation left them, and an evaluation
\* that does not make the call never modifies that Player.
C30_PlayersPersist ==
  [][Evaluation =>
       \A c \in ZCalls :
         LET k == KeyOf(c)
         IN players[k].exists =>
              /\ c \in track'[k].by =>
                   Left(z(players[k], pulses_since_origin')) = Left(players[k])
              /\ c \notin track'[k].by =>
                   Fields(players'[k]) = Fields(players[k])]_vars

\* C30 amended: while its cache entry exists, a call of z with the same cache
\* key (the JSON texts of input and options) returns the Player of that key
\* with firstCallTime, index, current element and pattern cursor as the previous
\* evaluation left them; lastCallTime is as left too, unless the player has not
\* started or its last query consumed an element, when z sets it to the current
\* pulse and clears played. An evaluation that makes no call with that key
\* never modifies the Player.
C30_PlayersPersistByKey ==
  [][Evaluation =>
       \A k \in PlayerKeys :
         LET p == players[k]
             r == z(p, pulses_since_origin')
         IN p.exists =>
              /\ track'[k].by # {} =>
                   /\ r.exists
                   /\ r.firstCallTime = p.firstCallTime
                   /\ r.index = p.index
                   /\ r.current = p.current
                   /\ r.ziffers = p.ziffers
                   /\ r.lastCallTime = IF notStarted(p) \/ p.played
                                         THEN pulses_since_origin'
                                         ELSE p.lastCallTime
                   /\ ~r.played
              /\ track'[k].by = {} => Fields(players'[k]) = Fields(players[k])]_vars

\* the last evaluation has queried a player that had consumed an element
\* before, next to a player of another key that it has left alone
C30_Witness ==
  \E k \in PlayerKeys, j \in PlayerKeys :
    /\ j # k
    /\ players[k].exists /\ track[k].asked /\ players[k].index >= 1
    /\ players[j].exists /\ ~track[j].asked /\ players[j].index = 0

(***************************************************************************)
(* Claims about copy_script                                                *)
(***************************************************************************)
\* the content of local script k of the selected universe, before and after
LocalBefore(k) == files[Selected.locals[k]]
LocalAfter(k) == files'[Selected'.locals[k]]

\* the step changes local script a alone: script(a), or the eval key while the
\* editor shows local script a
ChangesOnly(a) ==
  \/ op'.name = "script" /\ op'.args = <<a>>
  \/ op'.name = "evalkey" /\ editor_mode = "local" /\ local_index = a

\* C29: copy_script(from, to) makes `to` an independent copy of `from`: right
\* after the call the two scripts have the same candidate, committed text and
\* evaluations count, and a later change of one of them (an edit of its
\* candidate, an evaluation) leaves the other unchanged.
C29_CopyIsIndependent ==
  [][/\ op'.name = "copy_script" =>
          LocalAfter(op'.args[2]) = LocalBefore(op'.args[1])
     /\ \A a \in Slots : \A b \in Slots \ {a} :
          ChangesOnly(a) => LocalAfter(b) = LocalBefore(b)]_vars

====
